---- MODULE Spec2Model ----
(***************************************************************************)
(* Certificate Nucleus (src/src/app/page.tsx): the Home component as a     *)
(* state machine.  React state is the VARIABLES; every event handler,      *)
(* promise continuation and DOM callback is one action.  A JavaScript      *)
(* string is a sequence of one-character strings, null is the empty        *)
(* sequence of a one-element option (<<>> = null, <<v>> = v).              *)
(***************************************************************************)
EXTENDS Integers, Sequences, FiniteSets, TLC

(***************************************************************************)
(* Strings                                                                 *)
(***************************************************************************)
UpperAlpha ==
  <<"A","B","C","D","E","F","G","H","I","J","K","L","M",
    "N","O","P","Q","R","S","T","U","V","W","X","Y","Z">>

LowerAlpha ==
  <<"a","b","c","d","e","f","g","h","i","j","k","l","m",
    "n","o","p","q","r","s","t","u","v","w","x","y","z">>

DigitChars == <<"0","1","2","3","4","5","6","7","8","9">>

Range(s) == { s[i] : i \in 1..Len(s) }

\* the characters String.prototype.trim and the regex class \s treat as white space
WhiteSpace == {" ", "\t", "\n"}

\* the regex class \w
WordChars == Range(UpperAlpha) \cup Range(LowerAlpha) \cup Range(DigitChars) \cup {"_"}

\* String.prototype.toLowerCase, one character
LowerChar(c) ==
  IF c \in Range(UpperAlpha)
    THEN LowerAlpha[CHOOSE i \in 1..26 : UpperAlpha[i] = c]
    ELSE IF c = "É" THEN "é" ELSE IF c = "Ñ" THEN "ñ" ELSE c

toLowerCase(s) == [i \in 1..Len(s) |-> LowerChar(s[i])]

\* String.prototype.includes
includes(s, sub) ==
  \E i \in 0..(Len(s) - Len(sub)) : SubSeq(s, i + 1, i + Len(sub)) = sub

RECURSIVE TrimStart(_)
TrimStart(s) ==
  IF s # <<>> /\ Head(s) \in WhiteSpace THEN TrimStart(Tail(s)) ELSE s

RECURSIVE TrimEnd(_)
TrimEnd(s) ==
  IF s # <<>> /\ s[Len(s)] \in WhiteSpace
    THEN TrimEnd(SubSeq(s, 1, Len(s) - 1))
    ELSE s

\* String.prototype.trim
trim(s) == TrimEnd(TrimStart(s))

\* String(n) and `${n}` of a non-negative integer
RECURSIVE ToDecimal(_)
ToDecimal(n) ==
  IF n < 10 THEN <<DigitChars[n + 1]>>
            ELSE ToDecimal(n \div 10) \o <<DigitChars[(n % 10) + 1]>>

NAME == <<"n","a","m","e">>

(***************************************************************************)
(* slugify (lines 79-87)                                                   *)
(***************************************************************************)
\* String.prototype.normalize("NFKD"), one character: a precomposed letter
\* becomes its base letter followed by the combining mark
NFKDChar(c) ==
  CASE c = "é" -> <<"e", "U+0301">>
    [] c = "É" -> <<"E", "U+0301">>
    [] c = "ñ" -> <<"n", "U+0303">>
    [] c = "Ñ" -> <<"N", "U+0303">>
    [] OTHER -> <<c>>

RECURSIVE normalizeNFKD(_)
normalizeNFKD(s) ==
  IF s = <<>> THEN <<>> ELSE NFKDChar(Head(s)) \o normalizeNFKD(Tail(s))

\* .replace(/[^\w\s-]/g, "")
KeepSlugChar(c) == c \in WordChars \/ c \in WhiteSpace \/ c = "-"

StripNonWord(s) == SelectSeq(s, KeepSlugChar)

\* .replace(/\s+/g, "-"): every maximal run of white space becomes one hyphen
RECURSIVE HyphenateSpaces(_)
HyphenateSpaces(s) ==
  IF s = <<>> THEN <<>>
  ELSE IF Head(s) \in WhiteSpace
    THEN <<"-">> \o HyphenateSpaces(TrimStart(s))
    ELSE <<Head(s)>> \o HyphenateSpaces(Tail(s))

CERTIFICATE == <<"c","e","r","t","i","f","i","c","a","t","e","-">>

\* slugify without the fallback of line 86
slugifyWithoutFallback(value, fallbackIndex) ==
  toLowerCase(HyphenateSpaces(trim(StripNonWord(normalizeNFKD(value)))))

slugify(value, fallbackIndex) ==
  LET slug == toLowerCase(HyphenateSpaces(trim(StripNonWord(normalizeNFKD(value)))))
  IN  IF slug # <<>> THEN slug ELSE CERTIFICATE \o ToDecimal(fallbackIndex + 1)

PNG == <<".","p","n","g">>

(***************************************************************************)
(* Program constants                                                       *)
(***************************************************************************)
FONT_OPTIONS ==
  << [value |-> "algerian",           fontFamily |-> "\"Algerian\", \"Times New Roman\", serif"],
     [value |-> "playfair-display",   fontFamily |-> "\"Playfair Display\", serif"],
     [value |-> "great-vibes",        fontFamily |-> "\"Great Vibes\", cursive"],
     [value |-> "cinzel",             fontFamily |-> "\"Cinzel\", serif"],
     [value |-> "cormorant-garamond", fontFamily |-> "\"Cormorant Garamond\", serif"],
     [value |-> "pinyon-script",      fontFamily |-> "\"Pinyon Script\", cursive"],
     [value |-> "sacramento",         fontFamily |-> "\"Sacramento\", cursive"],
     [value |-> "montserrat",         fontFamily |-> "\"Montserrat\", sans-serif"],
     [value |-> "raleway",            fontFamily |-> "\"Raleway\", sans-serif"],
     [value |-> "roboto-slab",        fontFamily |-> "\"Roboto Slab\", serif"] >>

FONT_SIZE_MIN == 10
FONT_SIZE_MAX == 240

\* Math.min(max, Math.max(min, value)) on integers
clampInt(value, min, max) ==
  LET lo == IF value > min THEN value ELSE min
  IN  IF lo < max THEN lo ELSE max

DefaultSrc == [scheme |-> "", path |-> "/template.webp"]

NULL == <<>>
Some(v) == <<v>>

(***************************************************************************)
(* Sheet parsing: the synchronous part of handleUpload (lines 193-233)     *)
(***************************************************************************)
StrCell(s) == [t |-> "string", s |-> s, n |-> 0]
NumCell(n) == [t |-> "number", s |-> <<>>, n |-> n]
NullCell   == [t |-> "null",   s |-> <<>>, n |-> 0]

\* lines 203-207
NormalizeCell(cell) ==
  IF cell.t = "string" THEN trim(cell.s)
  ELSE IF cell.t = "number" THEN ToDecimal(cell.n)
  ELSE <<>>

NormalizeRow(row) == [i \in 1..Len(row) |-> NormalizeCell(row[i])]

\* row.some((cell) => cell): a string is truthy when it is not empty
RowHasValue(row) == \E i \in 1..Len(row) : row[i] # <<>>

\* lines 201-209
NormalizeRows(rows) ==
  SelectSeq([i \in 1..Len(rows) |-> NormalizeRow(rows[i])], RowHasValue)

\* line 215
RECURSIVE MaxColumns(_)
MaxColumns(rows) ==
  IF rows = <<>> THEN 0
  ELSE LET rest == MaxColumns(Tail(rows))
       IN  IF Len(Head(rows)) > rest THEN Len(Head(rows)) ELSE rest

COLUMN == <<"C","o","l","u","m","n"," ">>

\* lines 220-224; option.value is the 0-based index
ColumnOptionsOf(normalizedRows, maxColumns) ==
  LET headerRow == IF normalizedRows = <<>> THEN <<>> ELSE normalizedRows[1]
  IN  [k \in 1..maxColumns |->
         [label |-> IF k <= Len(headerRow) /\ headerRow[k] # <<>>
                      THEN headerRow[k]
                      ELSE COLUMN \o ToDecimal(k),
          value |-> k - 1]]

\* PreferredIndex taking the last match instead of the first
PreferredIndexLast(options) ==
  LET hits == { k \in 1..Len(options) : includes(toLowerCase(options[k].label), NAME) }
  IN  IF hits = {} THEN -1
      ELSE (CHOOSE k \in hits : \A j \in hits : k >= j) - 1

\* lines 225-227: Array.prototype.findIndex, 0-based, -1 when nothing matches
PreferredIndex(options) ==
  LET hits == { k \in 1..Len(options) : includes(toLowerCase(options[k].label), NAME) }
  IN  IF hits = {} THEN -1
      ELSE (CHOOSE k \in hits : \A j \in hits : k <= j) - 1

\* line 231
AutoSelect(preferredIndex) == IF preferredIndex >= 0 THEN preferredIndex ELSE 0

Message(text) == Some(<<text>>)

\* the outcome of lines 193-233 for a file whose bytes were read
ParseWorkbook(file) ==
  IF file.corrupt
    THEN [ok |-> FALSE, message |-> Message("File is not a spreadsheet.")]
  ELSE IF file.sheets = <<>>
    THEN [ok |-> FALSE, message |-> Message("No sheet found in workbook.")]
  ELSE
    LET normalizedRows == NormalizeRows(file.sheets[1])
        maxColumns == MaxColumns(normalizedRows)
        options == ColumnOptionsOf(normalizedRows, maxColumns)
    IN  IF normalizedRows = <<>>
          THEN [ok |-> FALSE, message |-> Message("No values detected in the sheet.")]
        ELSE IF maxColumns = 0
          THEN [ok |-> FALSE, message |-> Message("Unable to detect any columns in the sheet.")]
        ELSE [ok |-> TRUE,
              rows |-> normalizedRows,
              options |-> options,
              selected |-> AutoSelect(PreferredIndex(options)),
              message |-> Some(<<"Detected", ToString(Len(normalizedRows)), file.name>>)]

(***************************************************************************)
(* Name extraction effect (lines 142-159)                                  *)
(***************************************************************************)
\* row[selectedColumn] ?? ""
CellAt(row, column) == IF column + 1 <= Len(row) THEN row[column + 1] ELSE <<>>

\* HasHeader comparing without lowercasing
HasHeaderCaseSensitive(rows, column) == includes(CellAt(rows[1], column), NAME)

\* line 149
HasHeader(rows, column) == includes(toLowerCase(CellAt(rows[1], column)), NAME)

\* NonEmpty keeping every cell
KeepsEmpty(s) == TRUE

\* .filter(Boolean) of line 156: a string is truthy when it is not empty
NonEmpty(s) == s # <<>>

ExtractNames(rows, column) ==
  IF rows = <<>> THEN <<>>
  ELSE
    LET startIndex == IF HasHeader(rows, column) THEN 1 ELSE 0
        sliced == SubSeq(rows, startIndex + 1, Len(rows))
        cells == [i \in 1..Len(sliced) |-> trim(CellAt(sliced[i], column))]
    IN  SelectSeq(cells, NonEmpty)

(***************************************************************************)
(* Numbers: a coordinate is an exact fraction <<numerator, denominator>>   *)
(***************************************************************************)
RECURSIVE GCD(_, _)
GCD(a, b) == IF b = 0 THEN a ELSE GCD(b, a % b)

Frac(n, d) ==
  LET g == GCD(IF n < 0 THEN -n ELSE n, d)
  IN  <<n \div g, d \div g>>

\* clamp without the Math.min
clampWithoutMax(value) == IF value[1] > 0 THEN value ELSE <<0, 1>>

\* clamp (lines 67-68) with the default bounds min = 0, max = 1
clamp(value) ==
  LET lo == IF value[1] > 0 THEN value ELSE <<0, 1>>
  IN  IF lo[1] < lo[2] THEN lo ELSE <<1, 1>>

\* fraction * integer
Scale(value, k) == Frac(value[1] * k, value[2])

(***************************************************************************)
(* Images                                                                  *)
(***************************************************************************)
\* a file picked in the template input
PngFile ==
  [type |-> [major |-> "image", minor |-> "png"],
   dataUrl |-> [scheme |-> "data:", path |-> "image/png;base64,iVBORw0KGgo"],
   decodable |-> TRUE, naturalWidth |-> 4, naturalHeight |-> 2]

BrokenPngFile ==
  [type |-> [major |-> "image", minor |-> "png"],
   dataUrl |-> [scheme |-> "data:", path |-> "image/png;base64,AAAA"],
   decodable |-> FALSE, naturalWidth |-> 0, naturalHeight |-> 0]

TextFile ==
  [type |-> [major |-> "text", minor |-> "plain"],
   dataUrl |-> [scheme |-> "data:", path |-> "text/plain;base64,aGk="],
   decodable |-> FALSE, naturalWidth |-> 0, naturalHeight |-> 0]

TemplateFiles == {PngFile, BrokenPngFile, TextFile}

\* what the browser's image decoder makes of a URL: the bundled
\* /template.webp, or the payload of a picked file
Resource(src) ==
  IF src.scheme = "data:"
    THEN LET file == CHOOSE f \in TemplateFiles : f.dataUrl = src
         IN  [decodable |-> file.decodable, network |-> FALSE,
              naturalWidth |-> file.naturalWidth, naturalHeight |-> file.naturalHeight]
    ELSE [decodable |-> TRUE, network |-> TRUE,
          naturalWidth |-> 1920, naturalHeight |-> 1080]

(***************************************************************************)
(* State                                                                   *)
(***************************************************************************)
VARIABLES
  names, uploadStatus, generateStatus, statusMessage,   \* lines 99-102
  position, fontSize, fontColor, fontKey,               \* lines 103-106
  templateSize, templateSrc, templateData, templateError, \* lines 108-112
  isDragging, sheetRows, columnOptions, selectedColumn, \* lines 113-116
  uploads,     \* handleUpload activations suspended at file.arrayBuffer()
  readers,     \* FileReaders started by handleTemplateUpload, not yet done
  imgLoading,  \* the src the preview <img> is loading, if any
  runs,        \* handleGenerate activations suspended at an await
  download,    \* what the batch started last handed to downloadBlob, if anything
  calls,       \* direct calls of handleGenerate made besides the button
  slugCall     \* the arguments and the result of the last call of slugify

sheetVars == <<names, uploadStatus, sheetRows, columnOptions, selectedColumn, uploads>>
styleVars == <<fontSize, fontColor, fontKey>>
posVars   == <<position, isDragging>>
tmplVars  == <<templateSize, templateSrc, templateData, templateError, readers, imgLoading>>
genVars   == <<generateStatus, runs, download, calls>>

vars == <<sheetVars, styleVars, posVars, tmplVars, genVars, statusMessage, slugCall>>

\* customPreviewName, previewSize and isDarkMode (lines 107, 109, 117) only
\* feed the preview's presentation and are read by no handler modelled here.

\* the state after the first render; pending is <<>>, or <<file>> when
\* handleUpload(file) has already run up to its await
InitState(pending) ==
  /\ names = <<>>
  /\ uploadStatus = (IF pending = <<>> THEN "idle" ELSE "parsing")
  /\ generateStatus = "idle"
  /\ statusMessage = NULL
  /\ position = [x |-> <<1, 2>>, y |-> <<1, 2>>]
  /\ fontSize = 72
  /\ fontColor = "#0a0a0a"
  /\ fontKey = FONT_OPTIONS[1].value
  /\ templateSize = [width |-> 1920, height |-> 1080]
  /\ templateSrc = DefaultSrc
  /\ templateData = NULL
  /\ templateError = NULL
  /\ isDragging = FALSE
  /\ sheetRows = <<>>
  /\ columnOptions = <<>>
  /\ selectedColumn = 0
  /\ uploads = pending
  /\ readers = <<>>
  /\ imgLoading = Some(DefaultSrc)
  /\ runs = <<>>
  /\ download = NULL
  /\ calls = 0
  /\ slugCall = NULL

Init == InitState(<<>>)

\* s without its i-th element
RemoveAt(s, i) == SubSeq(s, 1, i - 1) \o SubSeq(s, i + 1, Len(s))

(***************************************************************************)
(* Bounds                                                                  *)
(***************************************************************************)
MaxUploads == 1
MaxReaders == 1
MaxRuns == 2
MaxCalls == 1
MaxFontSteps == 1
MaxCells == 4
MaxNames == 3
MaxSlugLen == 3

(***************************************************************************)
(* Spreadsheet upload (lines 186-240), column select (424), Clear (447)    *)
(***************************************************************************)
\* handleUpload up to its await
StartUpload(file) ==
  /\ Len(uploads) < MaxUploads
  /\ uploads' = Append(uploads, file)
  /\ uploadStatus' = "parsing"
  /\ statusMessage' = NULL
  /\ UNCHANGED <<names, sheetRows, columnOptions, selectedColumn>>
  /\ UNCHANGED <<styleVars, posVars, tmplVars, genVars, slugCall>>

\* UploadFailed with the failure escaping the handler: no status is set
UploadFailedUncaught(message) ==
  UNCHANGED <<uploadStatus, statusMessage, names, sheetRows, columnOptions, selectedColumn>>

\* what the catch block (lines 234-239) leaves of the sheet state
UploadFailed(message) ==
  /\ uploadStatus' = "error"
  /\ statusMessage' = message
  /\ UNCHANGED <<names, sheetRows, columnOptions, selectedColumn>>

\* handleUpload from the await on: file.arrayBuffer() settles, the workbook is
\* parsed, and the extraction effect runs on the new sheetRows / selectedColumn
UploadSettled ==
  \E i \in 1..Len(uploads) :
    LET file == uploads[i]
        parsed == ParseWorkbook(file)
    IN  /\ uploads' = RemoveAt(uploads, i)
        /\ IF ~file.readable
             THEN UploadFailed(Message("The requested file could not be read."))
           ELSE IF ~parsed.ok
             THEN UploadFailed(parsed.message)
           ELSE /\ sheetRows' = parsed.rows
                /\ columnOptions' = parsed.options
                /\ selectedColumn' = parsed.selected
                /\ uploadStatus' = "ready"
                /\ statusMessage' = parsed.message
                /\ names' = ExtractNames(parsed.rows, parsed.selected)
        /\ UNCHANGED <<styleVars, posVars, tmplVars, genVars, slugCall>>

\* the column <select> (lines 418-433), followed by the extraction effect
SelectColumn ==
  /\ Len(columnOptions) > 1
  /\ \E k \in 1..Len(columnOptions) :
       /\ columnOptions[k].value # selectedColumn
       /\ selectedColumn' = columnOptions[k].value
       /\ names' = ExtractNames(sheetRows, columnOptions[k].value)
  /\ UNCHANGED <<uploadStatus, sheetRows, columnOptions, uploads, statusMessage>>
  /\ UNCHANGED <<styleVars, posVars, tmplVars, genVars, slugCall>>

\* the Clear button (lines 445-454), rendered only while names are shown
Clear ==
  /\ uploadStatus = "ready"
  /\ Len(names) > 0
  /\ names' = <<>>
  /\ sheetRows' = <<>>
  /\ columnOptions' = <<>>
  /\ UNCHANGED <<uploadStatus, selectedColumn, uploads, statusMessage>>
  /\ UNCHANGED <<styleVars, posVars, tmplVars, genVars, slugCall>>

(***************************************************************************)
(* Dragging the text (lines 161-184, 499-502)                              *)
(***************************************************************************)
\* previewRef.current.getBoundingClientRect()
PreviewRect == [left |-> 10, top |-> 20, width |-> 4, height |-> 2]

PointerDown ==
  /\ isDragging' = TRUE
  /\ UNCHANGED <<position, sheetVars, styleVars, tmplVars, genVars, statusMessage, slugCall>>

\* PointerMove without the early return
PointerMoveWhenIdle(event) ==
  /\ LET rect == PreviewRect
         x == Frac(event.clientX - rect.left, rect.width)
         y == Frac(event.clientY - rect.top, rect.height)
     IN  position' = [x |-> clamp(x), y |-> clamp(y)]
  /\ UNCHANGED <<isDragging, sheetVars, styleVars, tmplVars, genVars, statusMessage, slugCall>>

\* handlePointerMove: returns early unless a drag is in progress
PointerMove(event) ==
  /\ isDragging
  /\ LET rect == PreviewRect
         x == Frac(event.clientX - rect.left, rect.width)
         y == Frac(event.clientY - rect.top, rect.height)
     IN  position' = [x |-> clamp(x), y |-> clamp(y)]
  /\ UNCHANGED <<isDragging, sheetVars, styleVars, tmplVars, genVars, statusMessage, slugCall>>

PointerUp ==
  /\ isDragging' = FALSE
  /\ UNCHANGED <<position, sheetVars, styleVars, tmplVars, genVars, statusMessage, slugCall>>

(***************************************************************************)
(* Style controls (lines 515-583)                                          *)
(***************************************************************************)
\* the sizes the step buttons are followed to: MaxFontSteps steps from a limit
FontSizeWindow ==
  (FONT_SIZE_MIN..(FONT_SIZE_MIN + 2 * MaxFontSteps))
    \cup ((FONT_SIZE_MAX - 2 * MaxFontSteps)..FONT_SIZE_MAX)

\* the range input
SetFontSize(value) ==
  /\ value \in FONT_SIZE_MIN..FONT_SIZE_MAX
  /\ fontSize' = value
  /\ UNCHANGED <<fontColor, fontKey, sheetVars, posVars, tmplVars, genVars, statusMessage, slugCall>>

\* the - and + buttons
StepFontSize(delta) ==
  /\ clampInt(fontSize + delta, FONT_SIZE_MIN, FONT_SIZE_MAX) \in FontSizeWindow
  /\ fontSize' = clampInt(fontSize + delta, FONT_SIZE_MIN, FONT_SIZE_MAX)
  /\ UNCHANGED <<fontColor, fontKey, sheetVars, posVars, tmplVars, genVars, statusMessage, slugCall>>

\* the colour input and the White / Black buttons
SetFontColor(value) ==
  /\ fontColor' = value
  /\ UNCHANGED <<fontSize, fontKey, sheetVars, posVars, tmplVars, genVars, statusMessage, slugCall>>

\* the font <select>
SetFontKey(value) ==
  /\ \E k \in 1..Len(FONT_OPTIONS) : FONT_OPTIONS[k].value = value
  /\ fontKey' = value
  /\ UNCHANGED <<fontSize, fontColor, sheetVars, posVars, tmplVars, genVars, statusMessage, slugCall>>

\* selectedFont (lines 120-123)
SelectedFont(key) ==
  IF \E k \in 1..Len(FONT_OPTIONS) : FONT_OPTIONS[k].value = key
    THEN FONT_OPTIONS[CHOOSE k \in 1..Len(FONT_OPTIONS) :
                        /\ FONT_OPTIONS[k].value = key
                        /\ \A j \in 1..(k - 1) : FONT_OPTIONS[j].value # key]
    ELSE FONT_OPTIONS[1]

(***************************************************************************)
(* Template (lines 242-263, 342-352, 482-488)                              *)
(***************************************************************************)
\* the <img src={templateSrc}> starts a load when its src attribute changes
ImgAfter(newSrc) == IF newSrc = templateSrc THEN imgLoading ELSE Some(newSrc)

\* handleTemplateUpload: a non-image is refused, an image is handed to a FileReader
handleTemplateUpload(file) ==
  /\ IF file.type.major # "image"
       THEN /\ templateError' = Message("Please choose an image file (JPG, PNG, SVG).")
            /\ UNCHANGED readers
       ELSE /\ Len(readers) < MaxReaders
            /\ readers' = Append(readers, file)
            /\ UNCHANGED templateError
  /\ UNCHANGED <<templateSize, templateSrc, templateData, imgLoading>>
  /\ UNCHANGED <<sheetVars, styleVars, posVars, genVars, statusMessage, slugCall>>

\* reader.onload (lines 250-255): readAsDataURL yields a data: URL whatever the bytes are
ReaderLoad ==
  \E i \in 1..Len(readers) :
    LET result == readers[i].dataUrl
    IN  /\ readers' = RemoveAt(readers, i)
        /\ templateSrc' = result
        /\ templateData' = Some(result)
        /\ templateError' = NULL
        /\ imgLoading' = ImgAfter(result)
        /\ UNCHANGED templateSize
        /\ UNCHANGED <<sheetVars, styleVars, posVars, genVars, statusMessage, slugCall>>

resetTemplate ==
  /\ templateSrc' = DefaultSrc
  /\ templateData' = NULL
  /\ templateError' = NULL
  /\ imgLoading' = ImgAfter(DefaultSrc)
  /\ UNCHANGED <<templateSize, readers>>
  /\ UNCHANGED <<sheetVars, styleVars, posVars, genVars, statusMessage, slugCall>>

\* the preview <img> finishes: onLoad runs handleImageLoad, an error event has no handler
ImgSettled ==
  /\ imgLoading # NULL
  /\ LET image == Resource(imgLoading[1])
     IN  \E loaded \in {TRUE, FALSE} :
           /\ loaded => image.decodable
           /\ ~loaded => (~image.decodable \/ image.network)
           /\ IF loaded /\ image.naturalWidth # 0 /\ image.naturalHeight # 0
                THEN templateSize' = [width |-> image.naturalWidth,
                                      height |-> image.naturalHeight]
                ELSE UNCHANGED templateSize
  /\ imgLoading' = NULL
  /\ UNCHANGED <<templateSrc, templateData, templateError, readers>>
  /\ UNCHANGED <<sheetVars, styleVars, posVars, genVars, statusMessage, slugCall>>

(***************************************************************************)
(* Batch generation: handleGenerate (lines 265-323)                        *)
(***************************************************************************)
\* canGenerate without the running check
canGenerateWhileRunning == Len(names) > 0

\* line 340
canGenerate == Len(names) > 0 /\ generateStatus # "running"

\* The bindings one activation of handleGenerate closes over: the handler is
\* re-created by every render, and the activation started by a click keeps the
\* state values of the render it was created in.
Closure ==
  [pc |-> "fonts.ready",
   names |-> names,
   fontSize |-> fontSize,
   fontColor |-> fontColor,
   selectedFont |-> SelectedFont(fontKey),
   templateSrc |-> templateSrc,
   templateData |-> templateData,
   templateSize |-> templateSize,
   position |-> position,
   zip |-> <<>>]

\* Scope reading the current state instead of the activation's own bindings
ScopeLive(run) ==
  [run EXCEPT !.names = names,
              !.fontSize = fontSize,
              !.fontColor = fontColor,
              !.selectedFont = SelectedFont(fontKey),
              !.templateSrc = templateSrc,
              !.templateData = templateData,
              !.templateSize = templateSize,
              !.position = position]

\* the values the body of an activation reads for names, position, fontSize, ...
Scope(run) == run

\* lines 275-278
ImageSource(templateData_, templateSrc_) ==
  IF templateData_ # NULL /\ templateSrc_.scheme = "data:"
    THEN [url |-> templateSrc_, cacheBust |-> FALSE]
    ELSE [url |-> templateSrc_, cacheBust |-> TRUE]

\* lines 298-308: what ends up in the canvas, and so in the PNG, for one name
Draw(scope, templateImage, name) ==
  [canvas |-> [width |-> scope.templateSize.width, height |-> scope.templateSize.height],
   image |-> templateImage,
   drawn |-> [width |-> scope.templateSize.width, height |-> scope.templateSize.height],
   fillStyle |-> scope.fontColor,
   font |-> [size |-> scope.fontSize, family |-> scope.selectedFont.fontFamily],
   text |-> name,
   x |-> Scale(scope.position.x, scope.templateSize.width),
   y |-> Scale(scope.position.y, scope.templateSize.height)]

\* ZipFile leaving an entry that is already there as it is
ZipFileKeepsFirst(zip, name, data) ==
  IF \E k \in 1..Len(zip) : zip[k].name = name
    THEN zip
    ELSE Append(zip, [name |-> name, data |-> data])

\* ZipFile with a new name put first instead of last
ZipFilePrepends(zip, name, data) ==
  IF \E k \in 1..Len(zip) : zip[k].name = name
    THEN [k \in 1..Len(zip) |->
            IF zip[k].name = name THEN [name |-> name, data |-> data] ELSE zip[k]]
    ELSE <<[name |-> name, data |-> data]>> \o zip

\* JSZip.file(name, data): a name already in the archive keeps its place and
\* gets the new data, a new name is added at the end
ZipFile(zip, name, data) ==
  IF \E k \in 1..Len(zip) : zip[k].name = name
    THEN [k \in 1..Len(zip) |->
            IF zip[k].name = name THEN [name |-> name, data |-> data] ELSE zip[k]]
    ELSE Append(zip, [name |-> name, data |-> data])

\* the for loop of lines 295-311, from 0-based index on
RECURSIVE RenderLoop(_, _, _, _)
RenderLoop(scope, templateImage, index, zip) ==
  IF index >= Len(scope.names) THEN zip
  ELSE LET name == scope.names[index + 1]
       IN  RenderLoop(scope, templateImage, index + 1,
                      ZipFile(zip, slugify(name, index) \o PNG,
                              Draw(scope, templateImage, name)))

\* a value thrown or rejected with: an Error carrying a message, or anything else
Thrown(message) == [isError |-> TRUE, message |-> message]
NotAnError == [isError |-> FALSE, message |-> ""]

\* GenerateFailed that still hands what was zipped so far to downloadBlob
GenerateFailedOffersPartial(i, error) ==
  /\ generateStatus' = "error"
  /\ statusMessage' = IF error.isError THEN Message(error.message)
                                       ELSE Message("Unable to generate certificates.")
  /\ runs' = RemoveAt(runs, i)
  /\ download' = Some([filename |-> "certificates.zip", files |-> runs[i].zip])

\* GenerateFailed that puts the flag back to idle
GenerateFailedResetsIdle(i, error) ==
  /\ generateStatus' = "idle"
  /\ statusMessage' = IF error.isError THEN Message(error.message)
                                       ELSE Message("Unable to generate certificates.")
  /\ runs' = RemoveAt(runs, i)
  /\ UNCHANGED download

\* the catch block (lines 317-322) of activation i
GenerateFailed(i, error) ==
  /\ generateStatus' = "error"
  /\ statusMessage' = IF error.isError THEN Message(error.message)
                                       ELSE Message("Unable to generate certificates.")
  /\ runs' = RemoveAt(runs, i)
  /\ UNCHANGED download

\* handleGenerate without the early return of line 266
handleGenerateUnguarded ==
  /\ generateStatus' = "running"
  /\ statusMessage' = NULL
  /\ runs' = Append(runs, Closure)
  /\ download' = NULL

\* handleGenerate up to its first await (lines 265-271)
handleGenerate ==
  IF Len(names) = 0
    THEN UNCHANGED <<generateStatus, statusMessage, runs, download>>
    ELSE /\ generateStatus' = "running"
         /\ statusMessage' = NULL
         /\ runs' = Append(runs, Closure)
         /\ download' = NULL

\* the Download ZIP button (lines 640-647): disabled unless canGenerate
ClickGenerate ==
  /\ canGenerate
  /\ Len(runs) < MaxRuns
  /\ handleGenerate
  /\ UNCHANGED <<calls, sheetVars, styleVars, posVars, tmplVars, slugCall>>

\* handleGenerate invoked other than through the button
CallHandleGenerate ==
  /\ calls < MaxCalls
  /\ calls' = calls + 1
  /\ Len(runs) < MaxRuns
  /\ handleGenerate
  /\ UNCHANGED <<sheetVars, styleVars, posVars, tmplVars, slugCall>>

\* document.fonts.ready resolves; document.fonts.load is called (lines 271-273)
FontsReady ==
  \E i \in 1..Len(runs) :
    /\ runs[i].pc = "fonts.ready"
    /\ runs' = [runs EXCEPT ![i].pc = "fonts.load"]
    /\ UNCHANGED <<generateStatus, statusMessage, download, calls>>
    /\ UNCHANGED <<sheetVars, styleVars, posVars, tmplVars, slugCall>>

\* document.fonts.load settles; on success loadImage is called (lines 273-279)
FontLoadSettled ==
  \E i \in 1..Len(runs) :
    /\ runs[i].pc = "fonts.load"
    /\ \/ /\ runs' = [runs EXCEPT ![i].pc = "loadImage"]
          /\ UNCHANGED <<generateStatus, statusMessage, download>>
       \/ \E error \in {Thrown("Could not load font."), NotAnError} :
            GenerateFailed(i, error)
    /\ UNCHANGED <<calls, sheetVars, styleVars, posVars, tmplVars, slugCall>>

\* loadImage settles (lines 89-96); on success the canvas is made, every name
\* is drawn and filed, and zip.generateAsync is called (lines 279-313)
ImageSettled ==
  \E i \in 1..Len(runs) :
    LET scope == Scope(runs[i])
        imageSource == ImageSource(scope.templateData, scope.templateSrc)
        image == Resource(imageSource.url)
    IN  /\ runs[i].pc = "loadImage"
        /\ \/ /\ image.decodable
              /\ \/ /\ runs' = [runs EXCEPT
                                  ![i].pc = "generateAsync",
                                  ![i].zip = RenderLoop(scope, imageSource, 0, <<>>)]
                    /\ UNCHANGED <<generateStatus, statusMessage, download>>
                 \/ GenerateFailed(i, Thrown("Canvas context unavailable."))
                 \/ \E index \in 0..(Len(scope.names) - 1) :
                      GenerateFailed(i, Thrown("The canvas could not be exported."))
           \/ /\ ~image.decodable \/ image.network
              /\ GenerateFailed(i, Thrown("Unable to load template image. Please try again."))
        /\ UNCHANGED <<calls, sheetVars, styleVars, posVars, tmplVars, slugCall>>

\* zip.generateAsync settles; on success the blob is downloaded (lines 313-316)
ZipSettled ==
  \E i \in 1..Len(runs) :
    /\ runs[i].pc = "generateAsync"
    /\ \/ /\ download' = Some([filename |-> "certificates.zip", files |-> runs[i].zip])
          /\ generateStatus' = "success"
          /\ statusMessage' = Message("Certificates are ready. Download should begin shortly.")
          /\ runs' = RemoveAt(runs, i)
       \/ \E error \in {Thrown("Could not build the archive."), NotAnError} :
            GenerateFailed(i, error)
    /\ UNCHANGED <<calls, sheetVars, styleVars, posVars, tmplVars, slugCall>>

\* slugify called on its own, as line 310 calls it for one name of the list
CallSlugify(value, fallbackIndex) ==
  /\ slugCall' = Some([value |-> value,
                       fallbackIndex |-> fallbackIndex,
                       slug |-> slugify(value, fallbackIndex)])
  /\ UNCHANGED <<sheetVars, styleVars, posVars, tmplVars, genVars, statusMessage>>

(***************************************************************************)
(* Inputs                                                                  *)
(***************************************************************************)
\* the characters of the strings slugify is tried on: an upper-case and a
\* lower-case letter, a letter with a diacritic, white space, a hyphen and a
\* character the regex of line 82 removes
SlugChars == {"A", "a", "é", " ", "-", "!"}

\* every string of SlugChars of a length up to n
SlugInputs(n) == UNION { [1..k -> SlugChars] : k \in 0..n }

Workbook(name, rows) ==
  [name |-> name, readable |-> TRUE, corrupt |-> FALSE, sheets |-> <<rows>>]

\* [["Full Name", "Id"], ["Al", 7], ["al"]]
RosterFile ==
  Workbook("roster.xlsx",
    << <<StrCell(<<"F","u","l","l"," ","N","a","m","e">>), StrCell(<<"I","d">>)>>,
       <<StrCell(<<"A","l">>), NumCell(7)>>,
       <<StrCell(<<"a","l">>)>> >>)

\* [["Bo"]]
GuestFile == Workbook("guests.xlsx", << <<StrCell(<<"B","o">>)>> >>)

\* a sheet of blank cells only
BlankFile == Workbook("blank.xlsx", << <<NullCell, StrCell(<<" ">>)>> >>)

NoSheetFile == [name |-> "empty.xlsx", readable |-> TRUE, corrupt |-> FALSE, sheets |-> <<>>]
CorruptFile == [name |-> "notes.xlsx", readable |-> TRUE, corrupt |-> TRUE, sheets |-> <<>>]
UnreadableFile == [name |-> "gone.xlsx", readable |-> FALSE, corrupt |-> FALSE, sheets |-> <<>>]

SampleSheetFiles ==
  {RosterFile, GuestFile, BlankFile, NoSheetFile, CorruptFile, UnreadableFile}

\* cells of the sheets every shape of which is tried: blank, white space,
\* a header text, a text to be trimmed, a number
RawCells ==
  { NullCell,
    StrCell(<<" ">>),
    StrCell(<<"N","a","m","e","s"," ">>),
    StrCell(<<" ","A","l">>),
    NumCell(7) }

\* the cells of flat, in order, as rows that end after the positions in cuts
\* and after the last cell
RECURSIVE SplitRows(_, _, _)
SplitRows(flat, cuts, from) ==
  IF from > Len(flat) THEN <<>>
  ELSE LET to == IF \E c \in cuts : c >= from
                   THEN CHOOSE c \in cuts : c >= from /\ \A d \in cuts : d >= from => c <= d
                   ELSE Len(flat)
       IN  <<SubSeq(flat, from, to)>> \o SplitRows(flat, cuts, to + 1)

\* a sheet of the cells of flat, cut into rows
SheetFile(flat, cuts) == Workbook("sheet.xlsx", SplitRows(flat, cuts, 1))

\* one-column sheets of names: two that slugify alike, one that slugifies to
\* nothing, one with a diacritic and a space
NameCells ==
  { StrCell(<<"A","l">>), StrCell(<<"a","l">>), StrCell(<<"!">>), StrCell(<<"É"," ","x">>) }

NameSheetFile(cells) ==
  Workbook("names.xlsx", [i \in 1..Len(cells) |-> <<cells[i]>>])

\* pointer positions: left of and above the preview, and inside it
SamplePointerEvents == { [clientX |-> 0, clientY |-> 0], [clientX |-> 11, clientY |-> 21] }

\* pointer positions left of, inside and right of the preview, and above,
\* inside and below it
PointerEvents == [clientX : {0, 11, 13, 20}, clientY : {0, 21, 30}]

(***************************************************************************)
(* Specifications                                                          *)
(***************************************************************************)
Generation ==
  \/ ClickGenerate
  \/ FontsReady
  \/ FontLoadSettled
  \/ ImageSettled
  \/ ZipSettled

\* every control of the page, without generation
NextControls ==
  \/ \E file \in {RosterFile, BlankFile} : StartUpload(file)
  \/ UploadSettled
  \/ SelectColumn
  \/ Clear
  \/ PointerDown
  \/ \E event \in SamplePointerEvents : PointerMove(event)
  \/ PointerUp
  \/ \E value \in {FONT_SIZE_MIN, FONT_SIZE_MAX} : SetFontSize(value)
  \/ \E delta \in {-2, 2} : StepFontSize(delta)
  \/ \E value \in {"#ffffff", "#000000"} : SetFontColor(value)
  \/ \E k \in 1..2 : SetFontKey(FONT_OPTIONS[k].value)
  \/ \E file \in TemplateFiles : handleTemplateUpload(file)
  \/ ReaderLoad
  \/ resetTemplate
  \/ ImgSettled

SpecControls == Init /\ [][NextControls]_vars

\* the guest list being uploaded, then generation interleaved with one sample
\* input of every input it reads: the name list, the anchor, the three style
\* attributes and the template
Next ==
  \/ UploadSettled
  \/ Clear
  \/ PointerDown
  \/ PointerMove([clientX |-> 0, clientY |-> 0])
  \/ PointerUp
  \/ SetFontSize(FONT_SIZE_MAX)
  \/ SetFontColor("#ffffff")
  \/ SetFontKey("cinzel")
  \/ handleTemplateUpload(PngFile)
  \/ ReaderLoad
  \/ resetTemplate
  \/ ImgSettled
  \/ Generation

Spec == InitState(<<GuestFile>>) /\ [][Next]_vars

\* uploads of every kind, column choice, Clear, and generation
NextFlow ==
  \/ \E file \in SampleSheetFiles : StartUpload(file)
  \/ UploadSettled
  \/ SelectColumn
  \/ Clear
  \/ Generation

SpecFlow == Init /\ [][NextFlow]_vars

\* the await of an activation of handleUpload ends (line 192): the step of
\* UploadSettled as it shows in uploads.  UploadSettled can happen exactly
\* when this can, and is the only action of the page that does this to uploads.
UploadAwaitEnds == \E i \in 1..Len(uploads) : uploads' = RemoveAt(uploads, i)

\* the await of loadImage ends (line 279): the step of ImageSettled as it
\* shows in runs, a failure or the rendered archive
ImageAwaitEnds ==
  \E i \in 1..Len(runs) :
    /\ runs[i].pc = "loadImage"
    /\ \/ runs' = RemoveAt(runs, i)
       \/ runs' = [runs EXCEPT
                     ![i].pc = "generateAsync",
                     ![i].zip = RenderLoop(Scope(runs[i]),
                                           ImageSource(Scope(runs[i]).templateData,
                                                       Scope(runs[i]).templateSrc),
                                           0, <<>>)]

\* every awaited step eventually resolves or rejects: the promise of
\* file.arrayBuffer(), document.fonts.ready, document.fonts.load, loadImage
\* and zip.generateAsync
AwaitsSettle ==
  /\ WF_uploads(UploadAwaitEnds)
  /\ WF_vars(FontsReady)
  /\ WF_vars(FontLoadSettled)
  /\ WF_runs(ImageAwaitEnds)
  /\ WF_vars(ZipSettled)

\* SpecFlow with every awaited step settling
SpecLive == Init /\ [][NextFlow]_vars /\ AwaitsSettle

\* one upload of any sheet of up to MaxCells cells, in rows of any lengths
InitSheet ==
  \E n \in 0..MaxCells :
    \E flat \in [1..n -> RawCells] :
      \E cuts \in SUBSET (1..(n - 1)) : InitState(<<SheetFile(flat, cuts)>>)

NextSheet == UploadSettled \/ SelectColumn \/ Clear

SpecSheet == InitSheet /\ [][NextSheet]_vars

\* one upload of any list of up to MaxNames names, then generation
InitBatch ==
  \E n \in 0..MaxNames :
    \E cells \in [1..n -> NameCells] : InitState(<<NameSheetFile(cells)>>)

NextBatch == UploadSettled \/ Generation

SpecBatch == InitBatch /\ [][NextBatch]_vars

\* the same, with handleGenerate also called directly
NextCall == NextBatch \/ CallHandleGenerate

SpecCall == InitBatch /\ [][NextCall]_vars

\* the roster uploaded, then template changes, dragging and generation
NextTemplate ==
  \/ UploadSettled
  \/ \E file \in TemplateFiles : handleTemplateUpload(file)
  \/ ReaderLoad
  \/ resetTemplate
  \/ ImgSettled
  \/ Generation

SpecTemplate == InitState(<<RosterFile>>) /\ [][NextTemplate]_vars

\* slugify applied once, to any string of up to MaxSlugLen characters at the
\* first or the last index of a list of MaxNames names
NextSlug ==
  /\ slugCall = NULL
  /\ \E value \in SlugInputs(MaxSlugLen) :
       \E fallbackIndex \in {0, MaxNames - 1} : CallSlugify(value, fallbackIndex)

SpecSlug == Init /\ [][NextSlug]_vars

\* the guest list being uploaded, then dragging with the pointer anywhere,
\* a template upload and generation
NextAnchor ==
  \/ UploadSettled
  \/ PointerDown
  \/ \E event \in PointerEvents : PointerMove(event)
  \/ PointerUp
  \/ handleTemplateUpload(PngFile)
  \/ ReaderLoad
  \/ ImgSettled
  \/ Generation

SpecAnchor == InitState(<<GuestFile>>) /\ [][NextAnchor]_vars

(***************************************************************************)
(* Properties                                                              *)
(***************************************************************************)
\* the file name of the certificate of the i-th name (1-based) of a list
FileNameOf(list, i) == slugify(list[i], i - 1) \o PNG

DistinctFileNames(list) ==
  \A i, j \in 1..Len(list) : i # j => FileNameOf(list, i) # FileNameOf(list, j)

\* the i-th entry of the archive is the certificate of the i-th name
EntryIsCertificate(files, list, i) ==
  /\ files[i].name = FileNameOf(list, i)
  /\ files[i].data.text = list[i]

C2_SingleFlight ==
  /\ Len(runs) <= 1
  /\ (generateStatus = "running") <=> (runs # <<>>)
  /\ runs # <<>> => ~canGenerate

\* a batch is in flight, past its rendering, with names loaded
C2_Witness ==
  /\ Len(runs) = 1
  /\ runs[1].pc = "generateAsync"
  /\ Len(names) > 0

\* the inputs of a batch as they are in the current state
CurrentInputs ==
  [names |-> names, position |-> position, fontSize |-> fontSize,
   fontColor |-> fontColor, selectedFont |-> SelectedFont(fontKey),
   templateSrc |-> templateSrc, templateSize |-> templateSize]

\* the inputs an activation of handleGenerate holds
InputsOf(run) ==
  [names |-> run.names, position |-> run.position, fontSize |-> run.fontSize,
   fontColor |-> run.fontColor, selectedFont |-> run.selectedFont,
   templateSrc |-> run.templateSrc, templateSize |-> run.templateSize]

\* one archive entry is drawn from the given inputs
DrawnFrom(entry, inputs) ==
  /\ \E i \in 1..Len(inputs.names) :
       /\ entry.name = FileNameOf(inputs.names, i)
       /\ entry.data.text = inputs.names[i]
  /\ entry.data.x = Scale(inputs.position.x, inputs.templateSize.width)
  /\ entry.data.y = Scale(inputs.position.y, inputs.templateSize.height)
  /\ entry.data.font.size = inputs.fontSize
  /\ entry.data.font.family = inputs.selectedFont.fontFamily
  /\ entry.data.fillStyle = inputs.fontColor
  /\ entry.data.image.url = inputs.templateSrc
  /\ entry.data.canvas = inputs.templateSize

ArchiveFrom(files, inputs) ==
  /\ \A k \in 1..Len(files) : DrawnFrom(files[k], inputs)
  /\ \A i \in 1..Len(inputs.names) :
       \E k \in 1..Len(files) : files[k].name = FileNameOf(inputs.names, i)

\* C3: the inputs of a batch are those of the moment Generate was triggered:
\* an activation starts with the current name list, anchor, font size, colour,
\* family and template, keeps them whatever the page does meanwhile, renders
\* every entry from them, and downloads exactly those entries.
C3_Snapshot ==
  /\ [](\A i \in 1..Len(runs) :
          runs[i].pc = "generateAsync" => ArchiveFrom(runs[i].zip, InputsOf(runs[i])))
  /\ [][/\ Len(runs') > Len(runs) => InputsOf(runs'[Len(runs')]) = CurrentInputs
        /\ (Len(runs') = Len(runs) /\ Len(runs) = 1) => InputsOf(runs'[1]) = InputsOf(runs[1])
        /\ (download' # NULL /\ download' # download) =>
             \E i \in 1..Len(runs) :
               /\ runs[i].pc = "generateAsync"
               /\ download'[1].files = runs[i].zip]_vars

\* a batch has rendered its entries after every one of its inputs was changed
C3_Witness ==
  /\ Len(runs) = 1
  /\ runs[1].pc = "generateAsync"
  /\ names # runs[1].names
  /\ position # runs[1].position
  /\ fontSize # runs[1].fontSize
  /\ fontColor # runs[1].fontColor
  /\ SelectedFont(fontKey) # runs[1].selectedFont
  /\ templateSrc # runs[1].templateSrc
  /\ templateSize # runs[1].templateSize

\* C4 as stated: after a failed upload (uploadStatus is error) the name list
\* and the sheet rows it is derived from are empty, so Generate is disabled.
C4_FailedUploadClearsNames ==
  uploadStatus = "error" => (names = <<>> /\ sheetRows = <<>> /\ ~canGenerate)

\* C5 as stated: the active template is never an undecodable one: a file that
\* is not an image, or an image payload that cannot be decoded, leaves the
\* previous valid template in place.
C5_TemplateStaysValid ==
  /\ Resource(templateSrc).decodable
  /\ templateData # NULL => Resource(templateData[1]).decodable

\* C6: a batch ends either in success with an archive that has an entry for
\* every name of the batch, or in error with a message and no download; after
\* a failure nothing is on offer.
C6_FailureAbortsBatch ==
  /\ [](generateStatus = "error" => download = NULL)
  /\ [][Len(runs') < Len(runs) =>
          \/ /\ generateStatus' = "success"
             /\ download' # NULL
             /\ \E i \in 1..Len(runs) :
                  /\ runs[i].pc = "generateAsync"
                  /\ \A n \in 1..Len(runs[i].names) :
                       \E k \in 1..Len(download'[1].files) :
                         download'[1].files[k].name = FileNameOf(runs[i].names, n)
          \/ /\ generateStatus' = "error"
             /\ statusMessage' # NULL
             /\ download' = NULL]_vars

\* a batch of two names failed while rendering
C6_Witness ==
  /\ generateStatus = "error"
  /\ statusMessage = Message("The canvas could not be exported.")
  /\ Len(names) = 2
  /\ runs = <<>>

\* C7: with an empty name list the Generate control is disabled, and a call of
\* handleGenerate changes neither generateStatus nor statusMessage, starts no
\* batch and downloads nothing.
C7_EmptyListNoOp ==
  /\ [](Len(names) = 0 => ~canGenerate)
  /\ [][(calls' # calls /\ Len(names) = 0) =>
          UNCHANGED <<generateStatus, statusMessage, runs, download>>]_vars

\* handleGenerate was called while the first sheet was still being read
C7_Witness ==
  /\ calls = 1
  /\ uploadStatus = "parsing"
  /\ names = <<>>
  /\ generateStatus = "idle"

\* the cell of 0-based row r of the sheet in the chosen column, trimmed
ChosenCell(r) == trim(CellAt(sheetRows[r + 1], selectedColumn))

\* the header rule of the claims: row 0 holds a header when its chosen-column
\* cell, lowercased, contains "name"
HeaderInRow0 ==
  \E i \in 1..Len(ChosenCell(0)) :
    /\ i + 3 <= Len(ChosenCell(0))
    /\ \A d \in 0..3 : LowerChar(ChosenCell(0)[i + d]) = NAME[d + 1]

\* the non-empty chosen cells of the 0-based rows r, r + 1, ...
RECURSIVE CellsFromRow(_)
CellsFromRow(r) ==
  IF r >= Len(sheetRows) THEN <<>>
  ELSE (IF ChosenCell(r) = <<>> THEN <<>> ELSE <<ChosenCell(r)>>) \o CellsFromRow(r + 1)

\* C8: the first row used as data is row 1 exactly when the lowercased cell
\* at (row 0, chosen column) contains "name"; otherwise row 0 is data too.
C8_HeaderDetection ==
  sheetRows # <<>> =>
    /\ HeaderInRow0 => names = CellsFromRow(1)
    /\ ~HeaderInRow0 => names = CellsFromRow(0)

\* a header was found in the second column and skipped, the row below it used
C8_Witness ==
  /\ Len(sheetRows) = 2
  /\ selectedColumn = 1
  /\ HeaderInRow0
  /\ Len(names) = 1

\* the 0-based data rows whose chosen cell is not empty
NamedRows ==
  { r \in (IF HeaderInRow0 THEN 1 ELSE 0)..(Len(sheetRows) - 1) : ChosenCell(r) # <<>> }

\* C9: the name list is the trimmed chosen-column cells of the data rows
\* without the empty ones: as many names as data rows with a non-empty cell,
\* the j-th name being the cell of the j-th such row (a missing cell counts as
\* empty, row order is kept, duplicates stay), every name non-empty and trimmed.
C9_NameList ==
  IF sheetRows = <<>> THEN names = <<>>
  ELSE
    /\ Len(names) = Cardinality(NamedRows)
    /\ \A j \in 1..Len(names) :
         LET r == CHOOSE r \in NamedRows : Cardinality({ q \in NamedRows : q <= r }) = j
         IN  /\ names[j] = ChosenCell(r)
             /\ names[j] # <<>>
             /\ trim(names[j]) = names[j]

\* a name, a row whose chosen cell is empty, and the same name again
C9_Witness ==
  /\ Len(sheetRows) = 3
  /\ ChosenCell(1) = <<>>
  /\ Len(names) = 2
  /\ names[1] = names[2]

\* C10: a successful parse sets selectedColumn to the index of the first
\* header-row cell whose lowercased text contains "name", to 0 when there is
\* none, and the index is one of the column options of the parsed sheet.
C10_AutoSelect ==
  [][(uploadStatus' = "ready" /\ Len(uploads') < Len(uploads)) =>
       LET header == sheetRows'[1]
           hits == { k \in 1..Len(header) : includes(toLowerCase(header[k]), NAME) }
       IN  /\ hits = {} => selectedColumn' = 0
           /\ hits # {} => /\ selectedColumn' + 1 \in hits
                           /\ \A k \in hits : selectedColumn' + 1 <= k
           /\ \E k \in 1..Len(columnOptions') : columnOptions'[k].value = selectedColumn']_vars

\* a parse has just chosen the second column, the only one with a header
C10_Witness ==
  /\ uploadStatus = "ready"
  /\ statusMessage # NULL
  /\ Len(columnOptions) = 2
  /\ selectedColumn = 1
  /\ includes(toLowerCase(CellAt(sheetRows[1], 1)), NAME)
  /\ ~includes(toLowerCase(CellAt(sheetRows[1], 0)), NAME)

\* a letter without its diacritic
BaseLetter(c) ==
  IF c = "é" THEN "e" ELSE IF c = "É" THEN "E"
  ELSE IF c = "ñ" THEN "n" ELSE IF c = "Ñ" THEN "N" ELSE c

\* the token a name normalizes to, read off the name from left to right:
\* letters lose their diacritics and their case, digits, underscores and
\* hyphens stay, everything else but white space is dropped, and white space
\* between two kept characters becomes one hyphen.  out is the token so far,
\* gap tells that white space was passed since the last kept character.
RECURSIVE TokenFrom(_, _, _)
TokenFrom(s, out, gap) ==
  IF s = <<>> THEN out
  ELSE LET c == BaseLetter(Head(s))
       IN  IF c \in WhiteSpace THEN TokenFrom(Tail(s), out, out # <<>>)
           ELSE IF c \in WordChars \/ c = "-"
             THEN TokenFrom(Tail(s),
                            out \o (IF gap THEN <<"-">> ELSE <<>>) \o <<LowerChar(c)>>,
                            FALSE)
           ELSE TokenFrom(Tail(s), out, gap)

Token(s) == TokenFrom(s, <<>>, FALSE)

\* C11: slugify is idempotent and never empty: for every string s and index i,
\* slugify(s, i) is a non-empty string, slugify(slugify(s, i), i) = slugify(s, i),
\* and an input that normalizes to the same token as s gets, at the same
\* index, the same slug as s.
C11_SlugifyIdempotent ==
  slugCall # NULL =>
    LET call == slugCall[1]
    IN  /\ call.slug # <<>>
        /\ slugify(call.slug, call.fallbackIndex) = call.slug
        /\ \A other \in SlugInputs(MaxSlugLen - 1) :
             Token(other) = Token(call.value) =>
               slugify(other, call.fallbackIndex) = call.slug

\* a name with leading white space, a capital and a removed character was
\* slugified, and a shorter input has the same token
C11_Witness ==
  /\ slugCall # NULL
  /\ slugCall[1].value = <<" ", "A", "!">>
  /\ slugCall[1].slug = <<"a">>
  /\ \E other \in SlugInputs(MaxSlugLen - 1) :
       other # slugCall[1].value /\ Token(other) = Token(slugCall[1].value)

\* a step in which a trigger with a non-empty name list starts a batch
TriggerStep ==
  /\ Len(names) > 0
  /\ Len(runs') = Len(runs) + 1
  /\ generateStatus' = "running"

\* a step in which a batch ends
EndStep ==
  /\ generateStatus = "running"
  /\ Len(runs') = Len(runs) - 1
  /\ generateStatus' \in {"success", "error"}

\* C12 as stated: the flag starts idle and changes only from idle to running
\* by a trigger with a non-empty name list, from running to success or error,
\* and from success or error back to idle on the next trigger.
C12_IdleOnNextTrigger ==
  /\ generateStatus = "idle"
  /\ [][generateStatus' # generateStatus =>
          \/ generateStatus = "idle" /\ TriggerStep
          \/ EndStep
          \/ generateStatus \in {"success", "error"} /\ generateStatus' = "idle"]_vars

\* C12 amended: the flag starts idle, becomes running only by a trigger with a
\* non-empty name list, leaves running only to success or error when the batch
\* ends, and from success or error the next trigger takes it directly to
\* running: it is never idle again after the first trigger.
C12_RunningOnNextTrigger ==
  /\ generateStatus = "idle"
  /\ [][/\ generateStatus' # generateStatus =>
             \/ generateStatus \in {"idle", "success", "error"} /\ TriggerStep
             \/ EndStep
        /\ Len(runs') > Len(runs) => TriggerStep
        /\ Len(runs') < Len(runs) => EndStep]_vars

\* a batch has ended in success and the trigger is enabled again
C12_Witness ==
  /\ generateStatus = "success"
  /\ download # NULL
  /\ canGenerate

\* the native pixel size of the image an archive entry was drawn from
NativeSize(entry) ==
  [width |-> Resource(entry.data.image.url).naturalWidth,
   height |-> Resource(entry.data.image.url).naturalHeight]

\* C13 as stated: in every batch the canvas has exactly the native pixel width
\* and height of the template image drawn in that batch, whatever the order of
\* template upload, reset, image load and Generate was.
C13_CanvasHasNativeSize ==
  \A i \in 1..Len(runs) :
    runs[i].pc = "generateAsync" =>
      \A k \in 1..Len(runs[i].zip) : runs[i].zip[k].data.canvas = NativeSize(runs[i].zip[k])

\* C14: every handler run ends in a terminal status: a running generateStatus
\* eventually becomes success or error and a parsing uploadStatus eventually
\* becomes ready or error, given that every awaited step settles; and the
\* step that ends an activation of either handler, by success or by a failure
\* of any kind, sets a terminal status, so no failure leaves the handler.
C14_EndsInTerminalStatus ==
  /\ (generateStatus = "running") ~> (generateStatus \in {"success", "error"})
  /\ (uploadStatus = "parsing") ~> (uploadStatus \in {"ready", "error"})
  /\ [][/\ Len(runs') < Len(runs) => generateStatus' \in {"success", "error"}
        /\ Len(uploads') < Len(uploads) => uploadStatus' \in {"ready", "error"}]_vars

\* an upload and a batch have both failed and both handlers have returned
C14_Witness ==
  /\ uploadStatus = "error"
  /\ generateStatus = "error"
  /\ uploads = <<>>
  /\ runs = <<>>
  /\ statusMessage # NULL

\* the 1-based index of the last name of the list whose slug is that of entry
LastWithSlug(list, entry) ==
  CHOOSE i \in 1..Len(list) :
    /\ slugify(list[i], i - 1) \o PNG = entry.name
    /\ \A j \in (i + 1)..Len(list) : slugify(list[j], j - 1) \o PNG # entry.name

\* C15: when names of one batch slugify to the same string the later entry
\* overwrites the earlier one: the downloaded archive has one entry per
\* distinct slug of the list, the entry of a slug holds the render of the last
\* name in input order with that slug, and the batch has ended in success.
\* (Under SpecBatch the name list does not change once it is loaded.)
C15_LaterOverwrites ==
  download # NULL =>
    LET files == download[1].files
        slugs == { slugify(names[i], i - 1) : i \in 1..Len(names) }
    IN  /\ generateStatus = "success"
        /\ Len(files) = Cardinality(slugs)
        /\ \A k \in 1..Len(files) :
             /\ \E slug \in slugs : files[k].name = slug \o PNG
             /\ files[k].data.text = names[LastWithSlug(names, files[k])]

\* a list in which two different names share a slug has been downloaded
C15_Witness ==
  /\ download # NULL
  /\ generateStatus = "success"
  /\ \E i, j \in 1..Len(names) :
       /\ i < j
       /\ names[i] # names[j]
       /\ slugify(names[i], i - 1) = slugify(names[j], j - 1)
       /\ \E k \in 1..Len(download[1].files) :
            /\ download[1].files[k].name = slugify(names[i], i - 1) \o PNG
            /\ download[1].files[k].data.text = names[j]

\* C16: the anchor position is changed only by a pointer-move received while
\* dragging, that is after a pointer-down on the text and before the next
\* pointer-up: a step that changes position starts and ends with isDragging
\* set and changes nothing else, so template upload, reset and load, sheet
\* upload, Clear, the style controls and Generate leave position as it is.
C16_OnlyDragMovesAnchor ==
  [][position' # position =>
       /\ isDragging
       /\ isDragging'
       /\ UNCHANGED <<sheetVars, styleVars, tmplVars, genVars, statusMessage>>]_vars

\* the anchor was dragged away from the centre, the drag has ended, and the
\* anchor is still there after a template swap and a finished batch
C16_Witness ==
  /\ position = [x |-> <<0, 1>>, y |-> <<0, 1>>]
  /\ ~isDragging
  /\ templateSrc # DefaultSrc
  /\ templateSize = [width |-> 4, height |-> 2]
  /\ generateStatus = "success"

\* a fraction between 0 and bound
InRange(value, bound) ==
  /\ value[2] > 0
  /\ 0 <= value[1]
  /\ value[1] <= bound * value[2]

\* C17: both coordinates of the anchor position are in [0,1] in every state,
\* wherever the pointer was during a drag, and so the pixel position of every
\* entry a batch has rendered lies within the template as drawn, in
\* [0, width] x [0, height].
C17_AnchorInUnitSquare ==
  /\ InRange(position.x, 1)
  /\ InRange(position.y, 1)
  /\ \A i \in 1..Len(runs) :
       /\ InRange(runs[i].position.x, 1)
       /\ InRange(runs[i].position.y, 1)
       /\ \A k \in 1..Len(runs[i].zip) :
            LET data == runs[i].zip[k].data
            IN  /\ InRange(data.x, data.drawn.width)
                /\ InRange(data.y, data.drawn.height)

\* a batch has rendered with the anchor left by a pointer right of and above
\* the preview
C17_Witness ==
  /\ Len(runs) = 1
  /\ runs[1].pc = "generateAsync"
  /\ runs[1].position = [x |-> <<1, 1>>, y |-> <<0, 1>>]
  /\ runs[1].zip[1].data.x = <<runs[1].templateSize.width, 1>>
  /\ runs[1].zip[1].data.y = <<0, 1>>

====
